---- MODULE Spec2Model ----
(***************************************************************************)
(* Model of the LLM load-test dashboard (frontend/src/app/page.tsx):       *)
(* the ramp loop of startTest, stopTest, and the streaming pipeline of     *)
(* handleStreamingAPI / readStream (line framing, record classification,   *)
(* result construction, timeout).                                          *)
(*                                                                         *)
(* Text on the wire is a sequence of symbols.  A symbol is one newline,    *)
(* one blank, the literal prefix "data: ", the sentinel "[DONE]", or a     *)
(* piece of a JSON text: "{" opens an object and a tag such as "M1}"       *)
(* holds its members and the closing brace, so a JSON text is two symbols  *)
(* and a chunk boundary can fall inside it.                                *)
(***************************************************************************)
EXTENDS Integers, Sequences, FiniteSets, TLC

(***************************************************************************)
(* Bounds of the model.                                                    *)
(***************************************************************************)
\* ramps that may be started (clicks on Run Test that pass the guard)
MaxRamps == 2
\* largest value the concurrency slider takes in the model (the UI allows 10)
MaxLevel == 2
\* frames the servers write at most, all responses together
MaxFrames == 3
\* the same where invocations overlap
MaxRampFrames == 2
\* longest chunk, in symbols, one reader.read() delivers
MaxChunk == 3

Ramps == 1..MaxRamps

NL == "\n"
SP == " "
PFX == "data: "
SENTINEL == "[DONE]"
OPEN == "{"

(***************************************************************************)
(* Parsed JSON objects.  A number field that is absent is 0: every use of  *)
(* such a field in the code is `x || fallback`, which treats 0 and absent  *)
(* alike.  done is "absent", "true", "false" or "str" (a non-empty string, *)
(* truthy but not boolean).  A text (content, the prompt) is a sequence of *)
(* symbols, the empty sequence when the field is absent or empty.          *)
(* resource_delta: present says the member exists, hasGpu and hasRam that  *)
(* it has a gpu list and a ram object; percent_delta and memory_delta_gb   *)
(* are the members of ram.                                                 *)
(***************************************************************************)
NoDelta ==
  [present |-> FALSE, hasGpu |-> FALSE, hasRam |-> FALSE, gpu |-> <<>>,
   percent_delta |-> 0, memory_delta_gb |-> 0]

Delta(util, mem, pct, gb) ==
  [present |-> TRUE, hasGpu |-> TRUE, hasRam |-> TRUE,
   gpu |-> <<[utilization_delta_percent |-> util, memory_delta_mb |-> mem]>>,
   percent_delta |-> pct, memory_delta_gb |-> gb]

\* a resource_delta without gpu list
DeltaNoGpu(pct, gb) ==
  [NoDelta EXCEPT !.present = TRUE, !.hasRam = TRUE, !.percent_delta = pct,
                  !.memory_delta_gb = gb]

\* a resource_delta without ram object
DeltaNoRam(util, mem) ==
  [Delta(util, mem, 0, 0) EXCEPT !.hasRam = FALSE]

\* a member `metrics` that holds a metrics payload of its own
NoNested == [present |-> FALSE, done |-> "absent", resource_delta |-> NoDelta]

Obj ==
  [type |-> "", done |-> "absent", resource_delta |-> NoDelta,
   metrics |-> NoNested,
   messageContent |-> <<>>, content |-> <<>>, model |-> "",
   total_time_seconds |-> 0, tokens_per_second |-> 0,
   prompt_tokens_per_second |-> 0, total_tokens |-> 0,
   load_time_seconds |-> 0, eval_time_seconds |-> 0,
   hasPeakGpu |-> FALSE, hasPeakRam |-> FALSE,
   peak_gpu_utilization |-> 0, peak_gpu_vram_usage |-> 0,
   peak_gpu_vram_mb |-> 0, peak_cpu_ram_usage |-> 0,
   peak_cpu_ram_usage_mb |-> 0]

\* The JSON texts of the model: tag |-> the object JSON.parse returns.
JSONValue(tag) ==
  CASE tag = "S}"  -> [Obj EXCEPT !.type = "status"]
    [] tag = "Ca}" -> [Obj EXCEPT !.type = "content", !.content = <<"Hel">>]
    [] tag = "Cb}" -> [Obj EXCEPT !.messageContent = <<"lo", SP, "!">>]
    [] tag = "M1}" -> [Obj EXCEPT !.type = "metrics",
                         !.resource_delta = Delta(7, 3, 5, 1),
                         !.model = "llama3", !.total_time_seconds = 2,
                         !.tokens_per_second = 45, !.prompt_tokens_per_second = 14,
                         !.total_tokens = 9, !.load_time_seconds = 1,
                         !.eval_time_seconds = 1, !.hasPeakGpu = TRUE,
                         !.hasPeakRam = TRUE, !.peak_gpu_utilization = 80,
                         !.peak_gpu_vram_usage = 70, !.peak_gpu_vram_mb = 5,
                         !.peak_cpu_ram_usage = 60, !.peak_cpu_ram_usage_mb = 4]
    [] tag = "M2}" -> [Obj EXCEPT !.type = "metrics",
                         !.resource_delta = Delta(4, 0, 0, 2),
                         !.tokens_per_second = 30]
    [] tag = "T}"  -> [Obj EXCEPT !.done = "true"]
    [] tag = "TE}" -> [Obj EXCEPT !.done = "true",
                         !.resource_delta = Delta(6, 2, 1, 1),
                         !.model = "llama3", !.total_time_seconds = 3,
                         !.tokens_per_second = 20, !.total_tokens = 8]
    [] tag = "MT}" -> [Obj EXCEPT !.type = "metrics", !.done = "true",
                         !.resource_delta = Delta(5, 1, 2, 1),
                         !.total_time_seconds = 4, !.tokens_per_second = 25,
                         !.total_tokens = 6]
    \* done false and a fragment, as Ollama streams them
    [] tag = "FC}" -> [Obj EXCEPT !.done = "false", !.messageContent = <<"lo">>]
    \* both content members
    [] tag = "B}"  -> [Obj EXCEPT !.messageContent = <<SP, "!">>,
                                    !.content = <<"?">>]
    \* done true and a fragment
    [] tag = "TC}" -> [Obj EXCEPT !.done = "true", !.content = <<"Hel">>]
    \* done is a non-empty string
    [] tag = "TS}" -> [Obj EXCEPT !.done = "str"]
    [] tag = "F}"  -> [Obj EXCEPT !.done = "false"]
    \* metrics whose resource_delta has no gpu list
    [] tag = "MG}" -> [Obj EXCEPT !.type = "metrics",
                         !.resource_delta = DeltaNoGpu(5, 1),
                         !.total_time_seconds = 2, !.tokens_per_second = 45,
                         !.total_tokens = 9]
    \* metrics whose resource_delta has no ram object, and no counters but
    \* tokens_per_second
    [] tag = "MR}" -> [Obj EXCEPT !.type = "metrics",
                         !.resource_delta = DeltaNoRam(4, 2),
                         !.tokens_per_second = 30]
    \* a REST body with the three metrics objects and no counters but
    \* tokens_per_second
    [] tag = "R2}" -> [Obj EXCEPT !.resource_delta = Delta(3, 1, 2, 1),
                         !.hasPeakGpu = TRUE, !.hasPeakRam = TRUE,
                         !.tokens_per_second = 12]
    \* the metrics event of the load-test route: the payload is the member
    \* `metrics`, the record itself has neither resource_delta nor done
    [] tag = "MN}" -> [Obj EXCEPT !.type = "metrics",
                         !.metrics = [present |-> TRUE, done |-> "true",
                                      resource_delta |-> Delta(11, 2, 7, 1)]]
    \* the last event of the load-test route
    [] tag = "DN}" -> [Obj EXCEPT !.type = "DONE"]

Tags ==
  {"S}", "Ca}", "Cb}", "M1}", "M2}", "T}", "TE}", "MT}", "FC}", "B}", "TC}",
   "TS}", "F}", "MG}", "MR}", "R2}", "MN}", "DN}"}

IsBlank(s) == \A i \in 1..Len(s) : s[i] = SP

RECURSIVE TrimLeft(_)
TrimLeft(s) == IF s # <<>> /\ Head(s) = SP THEN TrimLeft(Tail(s)) ELSE s

RECURSIVE TrimRight(_)
TrimRight(s) ==
  IF s # <<>> /\ s[Len(s)] = SP THEN TrimRight(SubSeq(s, 1, Len(s) - 1)) ELSE s

Trim(s) == TrimRight(TrimLeft(s))

\* JSON.parse: blanks around the value are allowed, anything else throws.
JSONParse(s) ==
  LET t == Trim(s) IN
  IF Len(t) = 2 /\ t[1] = OPEN /\ t[2] \in Tags
    THEN [ok |-> TRUE, data |-> JSONValue(t[2])]
    ELSE [ok |-> FALSE, data |-> Obj]

(***************************************************************************)
(* Result construction (the object literal passed to resolve).             *)
(***************************************************************************)
\* the model selected in the UI and the prompt typed into the message box
UiModel == "qwen3:4b-q8_0"
UiMessage == <<"Hello,", SP, "how", SP, "are", SP, "you", SP, "today?">>

\* number of blanks in a text
RECURSIVE BlanksIn(_)
BlanksIn(text) ==
  IF text = <<>> THEN 0
  ELSE (IF Head(text) = SP THEN 1 ELSE 0) + BlanksIn(Tail(text))

\* total tokens are always reported as 0 when the payload has none
SplitLengthZero(rawTokens) == 0

\* rawTokens.split(' ').length
SplitLength(rawTokens) == 1 + BlanksIn(rawTokens)

\* x || y on numbers
OrElse(x, y) == IF x # 0 THEN x ELSE y

\* m.total_time_seconds || totalTime: the reported time, else the wall clock
Latency(m) ==
  IF m.total_time_seconds # 0
    THEN [source |-> "total_time_seconds", value |-> m.total_time_seconds]
    ELSE [source |-> "wallclock", value |-> 0]

\* realMetrics.resource_delta?.gpu[0]: a resource_delta without gpu list makes
\* the index expression throw a TypeError
BuildThrows(m) == m.resource_delta.present /\ ~m.resource_delta.hasGpu

\* resource_delta?.ram?.percent_delta and .memory_delta_gb
Ram(m, field) ==
  IF m.resource_delta.present /\ m.resource_delta.hasRam
    THEN m.resource_delta[field]
    ELSE 0

Gpu0(m, field) ==
  IF m.resource_delta.present /\ m.resource_delta.gpu # <<>>
    THEN m.resource_delta.gpu[1][field]
    ELSE 0

BuildResult(m, concurrencyLevel, rawTokens) ==
  [concurrency |-> concurrencyLevel,
   message |-> UiMessage,
   model |-> IF m.model # "" THEN m.model ELSE UiModel,
   latency |-> Latency(m),
   throughput |-> OrElse(m.tokens_per_second, 0),
   promptThroughput |-> OrElse(m.prompt_tokens_per_second, 0),
   totalTokens |-> OrElse(m.total_tokens, SplitLength(rawTokens)),
   loadTime |-> OrElse(m.load_time_seconds, 0),
   evalTime |-> OrElse(m.eval_time_seconds, 0),
   gpuDelta |-> OrElse(Gpu0(m, "utilization_delta_percent"), 0),
   ramDelta |-> OrElse(Ram(m, "percent_delta"), 0),
   peakGpuUtilization |-> OrElse(m.peak_gpu_utilization, 0),
   peakGpuVramUsage |-> OrElse(m.peak_gpu_vram_usage, 0),
   peakGpuVramMb |-> OrElse(m.peak_gpu_vram_mb, 0),
   peakCpuRamUsage |-> OrElse(m.peak_cpu_ram_usage, 0),
   peakCpuRamUsageMb |-> OrElse(m.peak_cpu_ram_usage_mb, 0),
   gpuMemoryDelta |-> OrElse(Gpu0(m, "memory_delta_mb"), 0),
   ramMemoryDelta |-> OrElse(Ram(m, "memory_delta_gb"), 0)]

NoResult == BuildResult(Obj, 0, <<>>)

(***************************************************************************)
(* The pipeline of one chunk (readStream's callback, not-done branch).     *)
(***************************************************************************)
RECURSIVE SplitFrom(_, _, _)
SplitFrom(s, cur, acc) ==
  IF s = <<>> THEN Append(acc, cur)
  ELSE IF Head(s) = NL THEN SplitFrom(Tail(s), <<>>, Append(acc, cur))
  ELSE SplitFrom(Tail(s), Append(cur, Head(s)), acc)

\* buffer.split('\n'): one segment more than there are newlines
Split(s) == SplitFrom(s, <<>>, <<>>)

\* lines after lines.pop()
CompleteLines(buf) == LET segs == Split(buf) IN SubSeq(segs, 1, Len(segs) - 1)

\* the incomplete line is thrown away instead of kept
IncompleteDropped(buf) == <<>>

\* lines.pop() || ''
Incomplete(buf) == LET segs == Split(buf) IN segs[Len(segs)]

NoMetrics == [some |-> FALSE, data |-> Obj]

\* what one run's callbacks own and what they ask of the promise and the UI:
\*   call    "none", "resolve" or "reject": the call made on the promise
\*   stop    the callback returned without reading on
\*   msgs    the status messages the callbacks appended
\*   decoded the records JSON.parse has returned so far
FreshRun ==
  [buffer |-> <<>>, rawTokens |-> <<>>, realMetrics |-> NoMetrics,
   call |-> "none", result |-> NoResult, error |-> "", stop |-> FALSE,
   msgs |-> <<>>, decoded |-> <<>>]

Truthy(done) == done \in {"true", "str"}

MetricsMsg(level, data) ==
  [kind |-> "metrics", level |-> level, of |-> 0,
   text |-> "Real metrics",
   gpu |-> OrElse(Gpu0(data, "utilization_delta_percent"), 0),
   ram |-> OrElse(Ram(data, "percent_delta"), 0)]

ErrNoMetricsDone == "No real metrics received from API. Expected done=true message"
ErrNoMetricsEnd == "No real metrics received from API. Expected metrics"
ErrTimeout == "Test timeout"
ErrTransport == "HTTP error"
ErrType == "TypeError"
ErrSyntax == "SyntaxError"
ErrRestMissing == "REST API response missing required metrics"

\* a record whose member `metrics` holds the payload is metrics as well
IsMetricsNested(data) ==
  data.type = "metrics" /\ (data.resource_delta.present \/ data.metrics.present)

\* is the record captured as metrics (page.tsx 588)
IsMetrics(data) == data.type = "metrics" /\ data.resource_delta.present

\* a Terminal without metrics resolves with a result made from the record
OnDoneFabricates(st, st1, data, level) ==
  IF st.realMetrics.some
    THEN [st1 EXCEPT !.call = "resolve", !.stop = TRUE,
            !.result = BuildResult(st.realMetrics.data, level, st.rawTokens)]
    ELSE [st1 EXCEPT !.call = "resolve", !.stop = TRUE,
            !.result = BuildResult(data, level, st.rawTokens)]

\* the done branch (page.tsx 599-655); st1 is st with the record logged
OnDone(st, st1, data, level) ==
  IF st.realMetrics.some
    THEN IF BuildThrows(st.realMetrics.data)
           THEN st1   \* TypeError, caught at 665: the loop goes on
           ELSE [st1 EXCEPT !.call = "resolve", !.stop = TRUE,
                   !.result = BuildResult(st.realMetrics.data, level, st.rawTokens)]
  ELSE IF data.type = "metrics" /\ data.resource_delta.present
    THEN [st1 EXCEPT !.call = "resolve", !.stop = TRUE,
                     !.result = BuildResult(data, level, st.rawTokens)]
  ELSE [st1 EXCEPT !.call = "reject", !.stop = TRUE, !.error = ErrNoMetricsDone]

\* the first metrics record is kept, later ones are ignored
OnMetricsFirstWins(st1, data, level) ==
  IF st1.realMetrics.some
    THEN [st1 EXCEPT !.msgs = Append(@, MetricsMsg(level, data))]
    ELSE [st1 EXCEPT !.realMetrics = [some |-> TRUE, data |-> data],
                     !.msgs = Append(@, MetricsMsg(level, data))]

\* the metrics branch (page.tsx 588-596): the record is stored first; the
\* status message reads resource_delta?.gpu[0], which throws on a
\* resource_delta without gpu list, and then no message is appended
OnMetrics(st1, data, level) ==
  IF BuildThrows(data)
    THEN [st1 EXCEPT !.realMetrics = [some |-> TRUE, data |-> data]]
    ELSE [st1 EXCEPT !.realMetrics = [some |-> TRUE, data |-> data],
                     !.msgs = Append(@, MetricsMsg(level, data))]

\* the fragment is put in front of the text
PrependContent(rawTokens, fragment) == fragment \o rawTokens

\* rawTokens += fragment (page.tsx 658, 662)
AppendContent(rawTokens, fragment) == rawTokens \o fragment

\* done is tested before the metrics type
HandleRecordDoneFirst(st, data, level) ==
  LET st1 == [st EXCEPT !.decoded = Append(@, data)] IN
  IF Truthy(data.done) THEN OnDone(st, st1, data, level)
  ELSE IF IsMetrics(data) THEN OnMetrics(st1, data, level)
  ELSE IF data.messageContent # <<>>
    THEN [st1 EXCEPT !.rawTokens = AppendContent(@, data.messageContent)]
  ELSE IF data.content # <<>>
    THEN [st1 EXCEPT !.rawTokens = AppendContent(@, data.content)]
  ELSE st1

\* the branch taken on a parsed record (page.tsx 587-664)
HandleRecord(st, data, level) ==
  LET st1 == [st EXCEPT !.decoded = Append(@, data)] IN
  IF IsMetrics(data) THEN OnMetrics(st1, data, level)
  ELSE IF Truthy(data.done) THEN OnDone(st, st1, data, level)
  ELSE IF data.messageContent # <<>>
    THEN [st1 EXCEPT !.rawTokens = AppendContent(@, data.messageContent)]
  ELSE IF data.content # <<>>
    THEN [st1 EXCEPT !.rawTokens = AppendContent(@, data.content)]
  ELSE st1

\* the sentinel ends the run like a record with done true
OnSentinelTerminal(st, level) == OnDone(st, st, [Obj EXCEPT !.done = "true"], level)

\* `data: [DONE]`: continue (page.tsx 577-580)
OnSentinel(st, level) == st

\* a line that does not parse fails the run
OnParseErrorAborts(st) ==
  [st EXCEPT !.call = "reject", !.stop = TRUE, !.error = ErrSyntax]

\* JSON.parse throws: the catch logs and the loop goes on (page.tsx 665-667)
OnParseError(st) == st

\* the line is stripped of blanks before the prefix test
HandleLineTrimmed(st, line, level) ==
  LET t == Trim(line) IN
  IF t = <<>> THEN st
  ELSE IF Head(t) = PFX
    THEN IF Trim(Tail(t)) = <<SENTINEL>> THEN OnSentinel(st, level)
         ELSE LET p == JSONParse(Tail(t)) IN
              IF p.ok THEN HandleRecord(st, p.data, level) ELSE OnParseError(st)
  ELSE LET p == JSONParse(t) IN
       IF p.ok THEN HandleRecord(st, p.data, level) ELSE OnParseError(st)

\* one line of the for loop (page.tsx 569-668): line.trim() decides whether
\* the line is handled, startsWith is asked of the line as it came
HandleLine(st, line, level) ==
  IF IsBlank(line) THEN st
  ELSE IF Head(line) = PFX
    THEN IF Trim(Tail(line)) = <<SENTINEL>> THEN OnSentinel(st, level)
         ELSE LET p == JSONParse(Tail(line)) IN
              IF p.ok THEN HandleRecord(st, p.data, level) ELSE OnParseError(st)
  ELSE LET p == JSONParse(line) IN
       IF p.ok THEN HandleRecord(st, p.data, level) ELSE OnParseError(st)

RECURSIVE HandleLines(_, _, _)
HandleLines(st, lines, level) ==
  IF lines = <<>> \/ st.stop THEN st
  ELSE HandleLines(HandleLine(st, Head(lines), level), Tail(lines), level)

\* buffer += chunk; split; keep the incomplete line; handle the lines
ProcessChunk(st, chunk, level) ==
  LET buf == st.buffer \o chunk IN
  HandleLines([st EXCEPT !.buffer = Incomplete(buf)], CompleteLines(buf), level)

\* the end of the stream always yields a result
ProcessEndFabricates(st, level) ==
  [st EXCEPT !.call = "resolve", !.stop = TRUE,
     !.result = BuildResult(IF st.realMetrics.some THEN st.realMetrics.data ELSE Obj,
                            level, st.rawTokens)]

\* the end of the stream handles what is left in the buffer as a last line
ProcessEndFlushes(st, level) ==
  LET last == IF st.buffer = <<>> THEN st ELSE HandleLine(st, st.buffer, level)
  IN
  IF last.call # "none" THEN last
  ELSE IF last.realMetrics.some /\ ~BuildThrows(last.realMetrics.data)
    THEN [last EXCEPT !.call = "resolve", !.stop = TRUE,
            !.result = BuildResult(last.realMetrics.data, level, last.rawTokens)]
  ELSE [last EXCEPT !.call = "reject", !.stop = TRUE, !.error = ErrNoMetricsEnd]

\* the end of the stream always fails the run
ProcessEndRejects(st, level) ==
  [st EXCEPT !.call = "reject", !.stop = TRUE, !.error = ErrNoMetricsEnd]

\* without metrics, streamed content is enough for a result
ProcessEndFallback(st, level) ==
  IF st.realMetrics.some \/ st.rawTokens # <<>>
    THEN [st EXCEPT !.call = "resolve", !.stop = TRUE,
            !.result = BuildResult(st.realMetrics.data, level, st.rawTokens)]
    ELSE [st EXCEPT !.call = "reject", !.stop = TRUE, !.error = ErrNoMetricsEnd]

\* the done branch of reader.read() (page.tsx 530-560)
ProcessEnd(st, level) ==
  IF st.realMetrics.some
    THEN IF BuildThrows(st.realMetrics.data)
           THEN [st EXCEPT !.call = "reject", !.stop = TRUE, !.error = ErrType]
           ELSE [st EXCEPT !.call = "resolve", !.stop = TRUE,
                   !.result = BuildResult(st.realMetrics.data, level, st.rawTokens)]
    ELSE [st EXCEPT !.call = "reject", !.stop = TRUE, !.error = ErrNoMetricsEnd]

(***************************************************************************)
(* Frames a server writes.                                                 *)
(***************************************************************************)
\* one NDJSON record
Ndjson(tag) == <<OPEN, tag, NL>>
\* one event of an event stream: `data: ${json}\n\n`
Sse(tag) == <<PFX, OPEN, tag, NL, NL>>
SseDone == <<PFX, SENTINEL, NL, NL>>
\* a record the peer did not terminate with a newline
Unterminated(tag) == <<OPEN, tag>>
\* a truncated object on a line of its own
Malformed == <<OPEN, NL>>

\* a server write that holds two records
Two(tag1, tag2) == Ndjson(tag1) \o Ndjson(tag2)

\* frames where invocations overlap
RampFrames == {Ndjson("M1}"), Ndjson("T}")}

\* frames of one invocation: every kind of record
RunFrames ==
  {Sse("S}"), Sse("Ca}"), Ndjson("Cb}"), Ndjson("M1}"), Sse("M2}"),
   Ndjson("T}"), Ndjson("TE}"), Sse("MT}")}

\* frames of the decoder: every kind of framing
DecodeFrames ==
  {Ndjson("M1}"), Sse("Cb}"), Ndjson("T}"), SseDone, Malformed,
   Unterminated("M2}"), Unterminated("TE}")}

\* frames of one run: records that match more than one rule of the
\* classification or lack members the result is built from
RecordFrames ==
  {Ndjson("Ca}"), Ndjson("FC}"), Ndjson("B}"), Two("M1}", "T}"), Ndjson("MT}"),
   Ndjson("TC}"), Ndjson("TS}"), Ndjson("F}"), Ndjson("MG}"), Ndjson("MR}"),
   Ndjson("T}")}

\* an event with blanks before the prefix
LeadSse(tag) == <<SP, PFX, OPEN, tag, NL, NL>>
\* an event with blanks after the prefix and at the end of the line
SsePadded(tag) == <<PFX, SP, OPEN, tag, SP, NL, NL>>
\* an NDJSON record with blanks around it
Padded(tag) == <<SP, OPEN, tag, SP, NL>>

\* status and content events, as the /chat/stream endpoint of the README and
\* the load-test route write them before their metrics
EventsHead == Sse("S}") \o Sse("Ca}")
\* the end of a /chat/stream response (README.md 62-76)
ReadmeTail == Sse("M1}") \o SseDone
\* the end of a load-test response: metrics, status, DONE
LoadTestTail == (Sse("MN}") \o Sse("S}")) \o Sse("DN}")

\* frames of one run: the documented formats and lines with blanks
FormatFrames ==
  {EventsHead, ReadmeTail, LoadTestTail, LeadSse("M1}"), Padded("M2}"),
   SsePadded("T}")}

\* bodies of the answer of an endpoint that does not stream
RestBodies == {<<OPEN, "M1}">>, <<OPEN, "R2}">>, <<OPEN, "S}">>, <<OPEN>>}

(***************************************************************************)
(* Result construction of handleRestAPI.                                   *)
(***************************************************************************)
\* data.resource_delta && data.peak_gpu_usage && data.peak_ram_usage
RestHasMetrics(data) ==
  data.resource_delta.present /\ data.hasPeakGpu /\ data.hasPeakRam

\* data.resource_delta.gpu[0] and data.resource_delta.ram.percent_delta throw
\* a TypeError without gpu list or ram object
RestThrows(data) == ~data.resource_delta.hasGpu \/ ~data.resource_delta.hasRam

\* the object literal passed to resolve: as for a stream, but total tokens
\* fall back to 0
RestResult(data, concurrencyLevel) ==
  [BuildResult(data, concurrencyLevel, <<>>)
     EXCEPT !.totalTokens = OrElse(data.total_tokens, 0)]

\* the two .then and the .catch of handleRestAPI on a body
OnRestBody(st, body, level) ==
  LET p == JSONParse(body)
      st1 == [st EXCEPT !.stop = TRUE,
                        !.decoded = IF p.ok THEN <<p.data>> ELSE <<>>]
  IN
  IF ~p.ok THEN [st1 EXCEPT !.call = "reject", !.error = ErrSyntax]
  ELSE IF ~RestHasMetrics(p.data)
    THEN [st1 EXCEPT !.call = "reject", !.error = ErrRestMissing]
  ELSE IF RestThrows(p.data)
    THEN [st1 EXCEPT !.call = "reject", !.error = ErrType]
  ELSE [st1 EXCEPT !.call = "resolve", !.result = RestResult(p.data, level)]

(***************************************************************************)
(* The save-metrics route (api/save-metrics/route.ts) and the request      *)
(* saveTestResults sends to it.                                            *)
(***************************************************************************)
UiApiUrl == "http://localhost:8000/chat/stream"

\* the body holds no result
SaveBodyEmpty(results) ==
  [json |-> TRUE, apiUrl |-> UiApiUrl, model |-> UiModel,
   resultsKind |-> "array", results |-> <<>>]

\* the body saveTestResults posts (page.tsx 190-195); json: the body is
\* JSON text; resultsKind says what the member results is: "array", "absent"
\* or "other"
SaveBody(results) ==
  [json |-> TRUE, apiUrl |-> UiApiUrl, model |-> UiModel,
   resultsKind |-> "array", results |-> results]

\* bodies of other clients of the route: not JSON, or lacking a required
\* member
ForeignBodies ==
  {[SaveBody(<<>>) EXCEPT !.json = FALSE],
   [SaveBody(<<>>) EXCEPT !.apiUrl = ""],
   [SaveBody(<<>>) EXCEPT !.model = ""],
   [SaveBody(<<>>) EXCEPT !.resultsKind = "absent"],
   [SaveBody(<<>>) EXCEPT !.resultsKind = "other"]}

\* !apiUrl || !model || !results || !Array.isArray(results) is false
SaveValid(body) ==
  body.apiUrl # "" /\ body.model # "" /\ body.resultsKind = "array"

\* v || null for a number
Column(v) == [null |-> v = 0, value |-> v]

\* the column is read from the top-level field of the result
PeakColumnFlat(result, member, key) ==
  Column(result[CASE key = "peak_gpu_utilization_%" -> "peakGpuUtilization"
                  [] key = "peak_gpu_vram_usage_%" -> "peakGpuVramUsage"
                  [] key = "peak_gpu_vram_mb" -> "peakGpuVramMb"
                  [] key = "peak_cpu_ram_usage_%" -> "peakCpuRamUsage"
                  [] key = "peak_cpu_ram_usage_mb" -> "peakCpuRamUsageMb"])

\* result.peak_gpu_usage?.["..."] || null (route.ts 33-37)
PeakColumn(result, member, key) ==
  IF member \in DOMAIN result THEN Column(result[member][key]) ELSE Column(0)

\* the data of db.testResult.create (route.ts 19-42)
Row(body, result) ==
  [apiUrl |-> body.apiUrl,
   model |-> body.model,
   concurrency |-> result.concurrency,
   message |-> result.message,
   latency |-> result.latency,
   throughput |-> result.throughput,
   promptThroughput |-> result.promptThroughput,
   totalTokens |-> result.totalTokens,
   loadTime |-> result.loadTime,
   evalTime |-> result.evalTime,
   gpuDelta |-> result.gpuDelta,
   ramDelta |-> result.ramDelta,
   peakGpuUtilization |-> PeakColumn(result, "peak_gpu_usage", "peak_gpu_utilization_%"),
   peakGpuVramUsage |-> PeakColumn(result, "peak_gpu_usage", "peak_gpu_vram_usage_%"),
   peakGpuVramMb |-> PeakColumn(result, "peak_gpu_usage", "peak_gpu_vram_mb"),
   peakCpuRamUsage |-> PeakColumn(result, "peak_ram_usage", "peak_cpu_ram_usage_%"),
   peakCpuRamUsageMb |-> PeakColumn(result, "peak_ram_usage", "peak_cpu_ram_usage_mb"),
   gpuMemoryDelta |-> result.gpuMemoryDelta,
   ramMemoryDelta |-> result.ramMemoryDelta]

\* what get-metrics returns for a row (get-metrics GET, results.map)
GetResult(row) ==
  [concurrency |-> row.concurrency,
   message |-> row.message,
   model |-> row.model,
   latency |-> row.latency,
   throughput |-> row.throughput,
   promptThroughput |-> row.promptThroughput,
   totalTokens |-> row.totalTokens,
   loadTime |-> row.loadTime,
   evalTime |-> row.evalTime,
   gpuDelta |-> row.gpuDelta,
   ramDelta |-> row.ramDelta,
   peakGpuUtilization |-> row.peakGpuUtilization,
   peakGpuVramUsage |-> row.peakGpuVramUsage,
   peakGpuVramMb |-> row.peakGpuVramMb,
   peakCpuRamUsage |-> row.peakCpuRamUsage,
   peakCpuRamUsageMb |-> row.peakCpuRamUsageMb,
   gpuMemoryDelta |-> row.gpuMemoryDelta,
   ramMemoryDelta |-> row.ramMemoryDelta,
   apiUrl |-> row.apiUrl]

\* phase: "idle" no request yet, "creating" the creates are under way,
\* "answered" the response was sent, "lost" the request never arrived;
\* from: the invocation whose saveTestResults sent the request (0: another
\* client); creates: per result "pending", "ok" or "failed"; rows: the rows
\* written, each with the index of its result; status: of the response, 0
\* while there is none; replied: saveTestResults has seen the outcome
NoServer ==
  [phase |-> "idle", from |-> 0, body |-> SaveBody(<<>>), creates |-> <<>>,
   rows |-> {}, status |-> 0, replied |-> FALSE]

\* the handler up to its first await on the creates (route.ts 5-19)
Receive(body, from) ==
  IF ~body.json
    THEN [NoServer EXCEPT !.phase = "answered", !.from = from, !.body = body,
                          !.status = 500]
  ELSE IF ~SaveValid(body)
    THEN [NoServer EXCEPT !.phase = "answered", !.from = from, !.body = body,
                          !.status = 400]
  ELSE IF body.results = <<>>
    THEN [NoServer EXCEPT !.phase = "answered", !.from = from, !.body = body,
                          !.status = 200]
  ELSE [NoServer EXCEPT !.phase = "creating", !.from = from, !.body = body,
                        !.creates = [i \in 1..Len(body.results) |-> "pending"]]

\* a failed create undoes the rows of the request
RowsRolledBack(rows) == {}

\* the rows after a create of the request failed: nothing undoes them
RowsAfterFailure(rows) == rows

\* frames of runs whose results are saved
SaveFrames == {Two("M1}", "T}"), Two("MR}", "T}")}

(***************************************************************************)
(* State.                                                                  *)
(***************************************************************************)
VARIABLES
  isRunning,        \* React state of the component
  testResults,
  statusMessages,
  currentContent,
  progress,         \* <<n, of>> stands for (n / of) * 100
  maxConcurrency,
  started,          \* invocations of startTest that passed the guard
  ramp,             \* per invocation of startTest: its locals and position
  run,              \* per invocation: the run of its current level
  net,              \* per invocation: the response stream of that run
  sent,             \* frames the servers have written so far
  timers,           \* per invocation: levels whose setTimeout is pending
  server            \* the save-metrics route: its request, creates and rows

vars ==
  <<isRunning, testResults, statusMessages, currentContent, progress,
    maxConcurrency, started, ramp, run, net, sent, timers, server>>

\* pc: "idle" not invoked, "loop" awaiting runSingleTest(n), "completed" the
\* loop ran out, "failed" the loop was left by break.
\* issued: levels runSingleTest was called for; stoppedAt: the level at which
\* stopTest was first invoked while the loop was running (0: never);
\* saves: the payloads handed to saveTestResults (the model ends with the
\* POST being issued; its answer only adds a status message);
\* settledLevels: the levels whose promise settled and resumed the loop.
IdleRamp ==
  [pc |-> "idle", n |-> 0, maxConcurrencyLevel |-> 0, results |-> <<>>,
   issued |-> <<>>, stoppedAt |-> 0, saves |-> <<>>, failure |-> "",
   settledLevels |-> <<>>]

\* phase: "none", "fetching" (fetch pending), "reading" (a stream is read),
\* "closed" (the stream is read no more), "replied" (the body of an answer
\* that is no stream was taken)
\* settled: the promise of runSingleTest: "pending", "resolved", "rejected"
NoRun == [phase |-> "none", level |-> 0, settled |-> "pending", st |-> FreshRun]

NewRun(level) == [NoRun EXCEPT !.phase = "fetching", !.level = level]

\* wire: symbols written by the server and not yet read; received: every
\* symbol read so far; ended: reader.read() has reported the end; cut: some
\* chunk ended inside a line
NoNet == [wire |-> <<>>, received |-> <<>>, ended |-> FALSE, cut |-> FALSE]

Init ==
  /\ isRunning = FALSE
  /\ testResults = <<>>
  /\ statusMessages = <<>>
  /\ currentContent = <<>>
  /\ progress = <<0, 1>>
  /\ maxConcurrency = 0
  /\ started = 0
  /\ ramp = [r \in Ramps |-> IdleRamp]
  /\ run = [r \in Ramps |-> NoRun]
  /\ net = [r \in Ramps |-> NoNet]
  /\ sent = 0
  /\ timers = [r \in Ramps |-> {}]
  /\ server = NoServer

CompletedMsg(n, of, result) ==
  [kind |-> "completed", level |-> n, of |-> of, text |-> "Completed test",
   gpu |-> 0, ram |-> 0]

\* the failure notification names neither the level nor the cause
FailedMsgAnonymous(n, of, error) ==
  [kind |-> "failed", level |-> 0, of |-> of, text |-> "Unknown error",
   gpu |-> 0, ram |-> 0]

FailedMsg(n, of, error) ==
  [kind |-> "failed", level |-> n, of |-> of, text |-> error, gpu |-> 0, ram |-> 0]


RECURSIVE GCD(_, _)
GCD(a, b) == IF b = 0 THEN a ELSE GCD(b, a % b)

\* (n / of) * 100, kept as the fraction n / of in lowest terms
Pct(n, of) == LET g == GCD(n, of) IN <<n \div g, of \div g>>

\* the catch does not break
LoopGoesOnNoBreak(call, n, of) == n < of

\* the loop condition is n < max
LoopStopsEarly(call, n, of) == call = "resolve" /\ n + 1 < of

\* the loop has no upper end
LoopGoesOnPastMax(call, n, of) == call = "resolve"

\* does the for loop start another iteration after the run of level n
\* settled by call: not after the break of the catch, not past the last level
\* (page.tsx 154, 171)
LoopGoesOn(call, n, of) == call = "resolve" /\ n < of

\* a promise can be settled again
SettlesAgain(call, settled) == call # "none"

\* a resolve settles the promise even after a reject
SettlesResolveWins(call, settled) ==
  call # "none" /\ (settled = "pending" \/ call = "resolve")

\* does a call of resolve or reject settle the promise of runSingleTest
\* (page.tsx 474): only the first call does
Settles(call, settled) == call # "none" /\ settled = "pending"

\* every timer rejects the run that is current when it fires
TimerCallShared(k, level) == "reject"

\* a timer that fires calls nothing
TimerCallNone(k, level) == "none"

\* what the timer set for level k does when it fires while the invocation is
\* at level: it calls the reject of its own run (page.tsx 683-685)
TimerCall(k, level) == IF k = level THEN "reject" ELSE "none"

(***************************************************************************)
(* What follows an event of the run of invocation r.  The event left the   *)
(* run's callbacks in st2 and its stream in phase2, and called resolve or  *)
(* reject (call, with result or error) or neither.  A call on a promise    *)
(* that is already settled does nothing.  A call that settles it resumes   *)
(* startTest after `await runSingleTest(n)` in the same microtask          *)
(* checkpoint: the loop body's tail, then either the next iteration up to  *)
(* its await (page.tsx 154-158) or the code after the loop up to the await *)
(* inside saveTestResults (page.tsx 175-180, 185).                         *)
(***************************************************************************)
After(r, st2, phase2, call, result, error, net2, timers2) ==
  LET old == run[r]
      me == ramp[r]
      n == me.n
      of == me.maxConcurrencyLevel
      effective == Settles(call, old.settled)
      fresh == SubSeq(st2.msgs, Len(old.st.msgs) + 1, Len(st2.msgs))
      results2 == Append(me.results, result)
      final == IF call = "resolve" THEN results2 ELSE me.results
  IN
  /\ currentContent' =
       IF st2.rawTokens # old.st.rawTokens THEN st2.rawTokens ELSE currentContent
  /\ UNCHANGED <<started, sent, server>>
  /\ IF ~effective
       THEN /\ run' = [run EXCEPT ![r] = [old EXCEPT !.st = st2, !.phase = phase2]]
            /\ net' = [net EXCEPT ![r] = net2]
            /\ timers' = [timers EXCEPT ![r] = timers2]
            /\ statusMessages' = statusMessages \o fresh
            /\ UNCHANGED <<isRunning, testResults, progress, maxConcurrency, ramp>>
     ELSE IF LoopGoesOn(call, n, of)
       THEN /\ ramp' = [ramp EXCEPT ![r] =
                          [me EXCEPT !.results = final, !.n = n + 1,
                                     !.issued = Append(@, n + 1),
                                     !.settledLevels = Append(@, n)]]
            /\ run' = [run EXCEPT ![r] = NewRun(n + 1)]
            /\ net' = [net EXCEPT ![r] = NoNet]
            /\ timers' = [timers EXCEPT ![r] = timers2 \cup {n + 1}]
            /\ testResults' = IF call = "resolve" THEN results2 ELSE testResults
            /\ statusMessages' =
                 (statusMessages \o fresh) \o
                 <<IF call = "resolve" THEN CompletedMsg(n, of, result)
                                       ELSE FailedMsg(n, of, error)>>
            /\ progress' = Pct(n + 1, of)
            /\ UNCHANGED <<isRunning, maxConcurrency>>
     ELSE /\ ramp' = [ramp EXCEPT ![r] =
                        [me EXCEPT !.results = final,
                                   !.pc = IF call = "resolve" THEN "completed"
                                                              ELSE "failed",
                                   !.failure = IF call = "resolve" THEN "" ELSE error,
                                   !.saves = Append(@, final),
                                   !.settledLevels = Append(@, n)]]
          /\ run' = [run EXCEPT ![r] =
                       [old EXCEPT !.st = st2, !.phase = phase2,
                                   !.settled = IF call = "resolve" THEN "resolved"
                                                                   ELSE "rejected"]]
          /\ net' = [net EXCEPT ![r] = net2]
          /\ timers' = [timers EXCEPT ![r] = timers2]
          /\ testResults' = IF call = "resolve" THEN results2 ELSE testResults
          /\ statusMessages' =
               (statusMessages \o fresh) \o
               <<IF call = "resolve" THEN CompletedMsg(n, of, result)
                                     ELSE FailedMsg(n, of, error)>>
          /\ maxConcurrency' = Len(final)
          /\ isRunning' = FALSE
          /\ progress' = Pct(1, 1)

(***************************************************************************)
(* Operations.                                                             *)
(***************************************************************************)
\* click on Run Test with the slider at level (page.tsx 142-158)
startTest(level, limit) ==
  /\ ~isRunning
  /\ started < limit
  /\ LET r == started + 1 IN
     /\ started' = r
     /\ isRunning' = TRUE
     /\ statusMessages' = <<>>
     /\ currentContent' = <<>>
     /\ testResults' = <<>>
     /\ progress' = Pct(1, level)
     /\ ramp' = [ramp EXCEPT ![r] =
                   [IdleRamp EXCEPT !.pc = "loop", !.n = 1,
                                    !.maxConcurrencyLevel = level,
                                    !.issued = <<1>>]]
     /\ run' = [run EXCEPT ![r] = NewRun(1)]
     /\ net' = [net EXCEPT ![r] = NoNet]
     /\ timers' = [timers EXCEPT ![r] = {1}]
     /\ UNCHANGED <<maxConcurrency, sent, server>>

\* click on Stop Test (page.tsx 262-265)
stopTest ==
  /\ isRunning
  /\ isRunning' = FALSE
  /\ progress' = Pct(0, 1)
  /\ ramp' = [r \in Ramps |->
                IF ramp[r].pc = "loop" /\ ramp[r].stoppedAt = 0
                  THEN [ramp[r] EXCEPT !.stoppedAt = ramp[r].n]
                  ELSE ramp[r]]
  /\ UNCHANGED <<testResults, statusMessages, currentContent, maxConcurrency,
                 started, run, net, sent, timers, server>>

\* fetch resolves with an ok response that has a body (page.tsx 511-526, 675)
Connect(r) ==
  /\ run[r].phase = "fetching"
  /\ run' = [run EXCEPT ![r].phase = "reading"]
  /\ UNCHANGED <<isRunning, testResults, statusMessages, currentContent,
                 progress, maxConcurrency, started, ramp, net, sent, timers,
                 server>>

\* fetch rejects, or the response is not ok or has no body (page.tsx 515-524,
\* 677-680)
FetchFail(r) ==
  /\ run[r].phase = "fetching"
  /\ After(r, run[r].st, "closed", "reject", NoResult, ErrTransport, net[r],
           timers[r])

\* reader.read() rejects: the rejection runs down the chain to the catch
\* (page.tsx 529, 677-680)
StreamError(r) ==
  /\ run[r].phase = "reading"
  /\ After(r, run[r].st, "closed", "reject", NoResult, ErrTransport, net[r],
           timers[r])

\* the server writes one frame to the response stream, when at most room
\* symbols are still unread and fewer than budget frames were written
ServerSend(r, frame, room, budget) ==
  /\ run[r].phase = "reading"
  /\ sent < budget
  /\ Len(net[r].wire) <= room
  /\ net' = [net EXCEPT ![r].wire = @ \o frame]
  /\ sent' = sent + 1
  /\ UNCHANGED <<isRunning, testResults, statusMessages, currentContent,
                 progress, maxConcurrency, started, ramp, run, timers, server>>

\* reader.read() yields the next k symbols (page.tsx 561-671)
ReadChunk(r, k) ==
  /\ run[r].phase = "reading"
  /\ k \in 1..Len(net[r].wire)
  /\ LET chunk == SubSeq(net[r].wire, 1, k)
         st2 == ProcessChunk(run[r].st, chunk, run[r].level)
         net2 == [net[r] EXCEPT !.wire = SubSeq(@, k + 1, Len(@)),
                                !.received = @ \o chunk,
                                !.cut = @ \/ st2.buffer # <<>>]
     IN After(r, st2, IF st2.stop THEN "closed" ELSE "reading",
              st2.call, st2.result, st2.error, net2, timers[r])

\* reader.read() yields done: the peer closed and all was read (page.tsx 530-560)
ReadEnd(r) ==
  /\ run[r].phase = "reading"
  /\ net[r].wire = <<>>
  /\ LET st2 == ProcessEnd(run[r].st, run[r].level) IN
     After(r, st2, "closed", st2.call, st2.result, st2.error,
           [net[r] EXCEPT !.ended = TRUE], timers[r])

\* the answer of an endpoint that does not stream arrives with body
\* (page.tsx 702-741)
RestReply(r, body) ==
  /\ run[r].phase = "fetching"
  /\ LET st2 == OnRestBody(run[r].st, body, run[r].level) IN
     After(r, st2, "replied", st2.call, st2.result, st2.error, net[r], timers[r])

\* the timer's callback aborts the fetch and closes the stream
PhaseAfterTimeoutAborts(phase) == "closed"

\* the stream of a run after its timer fired: the callback only calls
\* reject, it neither aborts the fetch nor cancels the reader (page.tsx
\* 683-685)
PhaseAfterTimeout(phase) == phase

\* the timer set for level k fires (page.tsx 682-685, 743-746)
Timeout(r, k) ==
  /\ k \in timers[r]
  /\ After(r, run[r].st, PhaseAfterTimeout(run[r].phase),
           TimerCall(k, run[r].level),
           NoResult, ErrTimeout, net[r], timers[r] \ {k})

SavedMsg ==
  [kind |-> "saved", level |-> 0, of |-> 0,
   text |-> "Test results saved to database", gpu |-> 0, ram |-> 0]

SaveFailedMsg(error) ==
  [kind |-> "saveFailed", level |-> 0, of |-> 0, text |-> error, gpu |-> 0,
   ram |-> 0]

\* the POST of saveTestResults of invocation r arrives at the route
\* (page.tsx 185-196, route.ts 5-19)
SavePost(r) ==
  /\ server.phase = "idle"
  /\ ramp[r].saves # <<>>
  /\ server' = Receive(SaveBody(ramp[r].saves[1]), r)
  /\ UNCHANGED <<isRunning, testResults, statusMessages, currentContent,
                 progress, maxConcurrency, started, ramp, run, net, sent, timers>>

\* the fetch of saveTestResults rejects: the catch reports it (page.tsx
\* 206-211)
SaveUnreachable(r) ==
  /\ server.phase = "idle"
  /\ ramp[r].saves # <<>>
  /\ server' = [server EXCEPT !.phase = "lost", !.from = r, !.replied = TRUE]
  /\ statusMessages' = Append(statusMessages, SaveFailedMsg("Failed to fetch"))
  /\ UNCHANGED <<isRunning, testResults, currentContent, progress,
                 maxConcurrency, started, ramp, run, net, sent, timers>>

\* another client posts body to the route
SaveRequest(body) ==
  /\ server.phase = "idle"
  /\ server' = Receive(body, 0)
  /\ UNCHANGED <<isRunning, testResults, statusMessages, currentContent,
                 progress, maxConcurrency, started, ramp, run, net, sent, timers>>

\* the create for result i succeeds: its row is written; when it was the
\* last one and none failed, Promise.all fulfils and the handler answers 200
\* (route.ts 17-50)
CreateDone(i) ==
  /\ i \in 1..Len(server.creates)
  /\ server.creates[i] = "pending"
  /\ LET creates2 == [server.creates EXCEPT ![i] = "ok"]
         all == \A j \in 1..Len(creates2) : creates2[j] = "ok"
     IN server' =
          [server EXCEPT
             !.creates = creates2,
             !.rows = @ \cup {[i |-> i, row |-> Row(server.body, server.body.results[i])]},
             !.status = IF all /\ @ = 0 THEN 200 ELSE @,
             !.phase = IF all THEN "answered" ELSE @]
  /\ UNCHANGED <<isRunning, testResults, statusMessages, currentContent,
                 progress, maxConcurrency, started, ramp, run, net, sent, timers>>

\* the create for result i fails: Promise.all rejects on the first failure
\* and the handler answers 500; the other creates go on (route.ts 17-56)
CreateFail(i) ==
  /\ i \in 1..Len(server.creates)
  /\ server.creates[i] = "pending"
  /\ server' =
       [server EXCEPT !.creates[i] = "failed",
                      !.rows = RowsAfterFailure(@),
                      !.status = IF @ = 0 THEN 500 ELSE @,
                      !.phase = "answered"]
  /\ UNCHANGED <<isRunning, testResults, statusMessages, currentContent,
                 progress, maxConcurrency, started, ramp, run, net, sent, timers>>

\* saveTestResults of invocation r gets the response (page.tsx 198-211)
SaveReply(r) ==
  /\ server.from = r
  /\ server.status # 0
  /\ ~server.replied
  /\ server' = [server EXCEPT !.replied = TRUE]
  /\ statusMessages' =
       Append(statusMessages,
              IF server.status = 200 THEN SavedMsg
              ELSE SaveFailedMsg("Failed to save test results"))
  /\ UNCHANGED <<isRunning, testResults, currentContent, progress,
                 maxConcurrency, started, ramp, run, net, sent, timers>>

(***************************************************************************)
(* SpecRamps: invocations of startTest that may overlap; each frame of a   *)
(* response arrives as one chunk.                                          *)
(***************************************************************************)
NextRamps ==
  \/ \E level \in 1..MaxLevel : startTest(level, MaxRamps)
  \/ stopTest
  \/ \E r \in Ramps : Connect(r)
  \/ \E r \in Ramps : FetchFail(r)
  \/ \E r \in Ramps : StreamError(r)
  \/ \E r \in Ramps, f \in RampFrames : ServerSend(r, f, 0, MaxRampFrames)
  \/ \E r \in Ramps : ReadChunk(r, Len(net[r].wire))
  \/ \E r \in Ramps : ReadEnd(r)
  \/ \E r \in Ramps, k \in 1..MaxLevel : Timeout(r, k)

SpecRamps == Init /\ [][NextRamps]_vars

(***************************************************************************)
(* Spec: one invocation of startTest, records of every kind; each frame of *)
(* a response arrives as one chunk.                                        *)
(***************************************************************************)
Next ==
  \/ \E level \in 1..MaxLevel : startTest(level, 1)
  \/ stopTest
  \/ Connect(1)
  \/ FetchFail(1)
  \/ StreamError(1)
  \/ \E f \in RunFrames : ServerSend(1, f, 0, MaxFrames)
  \/ ReadChunk(1, Len(net[1].wire))
  \/ ReadEnd(1)
  \/ \E k \in 1..MaxLevel : Timeout(1, k)

Spec == Init /\ [][Next]_vars

(***************************************************************************)
(* SpecDecode: one run; its response is cut into chunks at any symbol, and *)
(* a chunk may hold the end of one frame and the start of the next.        *)
(***************************************************************************)
NextDecode ==
  \/ startTest(1, 1)
  \/ stopTest
  \/ Connect(1)
  \/ FetchFail(1)
  \/ StreamError(1)
  \/ \E f \in DecodeFrames : ServerSend(1, f, MaxChunk - 1, MaxFrames)
  \/ \E k \in 1..MaxChunk : ReadChunk(1, k)
  \/ ReadEnd(1)
  \/ Timeout(1, 1)

SpecDecode == Init /\ [][NextDecode]_vars

(***************************************************************************)
(* SpecRecords: one run at level 1, against a streaming endpoint with      *)
(* records of every shape or against an endpoint that answers with one     *)
(* JSON body; each frame of a response arrives as one chunk.               *)
(***************************************************************************)
NextRecords ==
  \/ startTest(1, 1)
  \/ stopTest
  \/ Connect(1)
  \/ FetchFail(1)
  \/ StreamError(1)
  \/ \E f \in RecordFrames : ServerSend(1, f, 0, MaxFrames)
  \/ ReadChunk(1, Len(net[1].wire))
  \/ ReadEnd(1)
  \/ \E body \in RestBodies : RestReply(1, body)
  \/ Timeout(1, 1)

SpecRecords == Init /\ [][NextRecords]_vars

(***************************************************************************)
(* SpecFormats: one run at level 1 against a streaming endpoint that       *)
(* writes one of the documented formats, or lines with blanks around the   *)
(* prefix or the record; each frame arrives as one chunk.                  *)
(***************************************************************************)
NextFormats ==
  \/ startTest(1, 1)
  \/ stopTest
  \/ Connect(1)
  \/ FetchFail(1)
  \/ StreamError(1)
  \/ \E f \in FormatFrames : ServerSend(1, f, 0, MaxFrames)
  \/ ReadChunk(1, Len(net[1].wire))
  \/ ReadEnd(1)
  \/ Timeout(1, 1)

SpecFormats == Init /\ [][NextFormats]_vars

(***************************************************************************)
(* SpecSave: one invocation of startTest whose results are posted to the   *)
(* save-metrics route, or another client posting to it.                    *)
(***************************************************************************)
NextSave ==
  \/ \E level \in 1..MaxLevel : startTest(level, 1)
  \/ stopTest
  \/ Connect(1)
  \/ FetchFail(1)
  \/ \E f \in SaveFrames : ServerSend(1, f, 0, MaxFrames)
  \/ ReadChunk(1, Len(net[1].wire))
  \/ \E k \in 1..MaxLevel : Timeout(1, k)
  \/ SavePost(1)
  \/ SaveUnreachable(1)
  \/ \E body \in ForeignBodies : SaveRequest(body)
  \/ \E i \in 1..MaxLevel : CreateDone(i)
  \/ \E i \in 1..MaxLevel : CreateFail(i)
  \/ SaveReply(1)

SpecSave == Init /\ [][NextSave]_vars

(***************************************************************************)
(* SpecLive: one invocation of startTest against a peer that may never     *)
(* answer, never end its stream or never send a done record; every timer   *)
(* that setTimeout armed fires at some time (page.tsx 683-685: the timer   *)
(* is never cleared).                                                      *)
(***************************************************************************)
NextLive ==
  \/ \E level \in 1..MaxLevel : startTest(level, 1)
  \/ stopTest
  \/ Connect(1)
  \/ FetchFail(1)
  \/ StreamError(1)
  \/ \E f \in RampFrames : ServerSend(1, f, 0, MaxRampFrames)
  \/ ReadChunk(1, Len(net[1].wire))
  \/ ReadEnd(1)
  \/ \E k \in 1..MaxLevel : Timeout(1, k)

SpecLive ==
  Init /\ [][NextLive]_vars /\ \A k \in 1..MaxLevel : WF_vars(Timeout(1, k))

(***************************************************************************)
(* Properties.                                                             *)
(***************************************************************************)
Last(q) == q[Len(q)]

\* the levels 1..k in order
UpTo(k) == [i \in 1..k |-> i]

Concurrencies(results) == [i \in 1..Len(results) |-> results[i].concurrency]

\* a Terminal record: done is truthy and the record was not taken as metrics
IsTerminal(data) == ~IsMetrics(data) /\ Truthy(data.done)

\* neither metrics nor terminal: a status or content record
IsPlain(data) == ~IsMetrics(data) /\ ~Truthy(data.done)

MetricsOf(decoded) == SelectSeq(decoded, IsMetrics)

\* the run failed for a reason outside its records
FailedOutside(r) == ramp[r].failure \in {ErrTimeout, ErrTransport}

\* invocation r stopped at level k without a result for it
HaltedAt(r, k) ==
  /\ ramp[r].pc = "failed"
  /\ ramp[r].n = k
  /\ Concurrencies(ramp[r].results) = UpTo(k - 1)
  /\ ramp[r].issued = UpTo(k)
  /\ ramp[r].saves = <<ramp[r].results>>

\* C1: while the level loop of one invocation of startTest is executing, no
\* second invocation gets past the guard: at most one level loop is active.
C1_OneRampAtATime == Cardinality({r \in Ramps : ramp[r].pc = "loop"}) <= 1

\* C2: once stopTest was invoked while the loop was at level k below the
\* maximum, the loop calls runSingleTest for no level above k.
C2_NoLevelAfterStop ==
  \A r \in Ramps :
    (ramp[r].stoppedAt # 0 /\ ramp[r].stoppedAt < ramp[r].maxConcurrencyLevel)
      => \A i \in 1..Len(ramp[r].issued) : ramp[r].issued[i] <= ramp[r].stoppedAt

\* C3: when the run of level k fails (a failure notification for level k was
\* emitted, whatever the reason), the invocation has left its loop by the
\* break at level k: its result list holds exactly the results of levels
\* 1..k-1, runSingleTest was called for the levels 1..k and no other, and the
\* loop was not left by running out.
C3_FailureHalts ==
  /\ \A i \in 1..Len(statusMessages) :
       statusMessages[i].kind = "failed" => HaltedAt(1, statusMessages[i].level)
  /\ \A r \in Ramps : ramp[r].pc = "failed" => HaltedAt(r, ramp[r].n)
  /\ \A r \in Ramps : run[r].settled = "rejected" => HaltedAt(r, run[r].level)

C3_Witness ==
  /\ HaltedAt(1, 2)
  /\ Len(ramp[1].results) = 1
  /\ ramp[1].failure = ErrNoMetricsDone

\* C4: when every level's run succeeded (the loop ran out), the result list
\* has exactly maxConcurrencyLevel entries with concurrency 1, 2, ... in order,
\* and that list is the one handed to saveTestResults.
C4_AllLevels ==
  \A r \in Ramps :
    ramp[r].pc = "completed" =>
      /\ Concurrencies(ramp[r].results) = UpTo(ramp[r].maxConcurrencyLevel)
      /\ ramp[r].issued = UpTo(ramp[r].maxConcurrencyLevel)
      /\ ramp[r].saves = <<ramp[r].results>>

C4_Witness ==
  /\ ramp[1].pc = "completed"
  /\ ramp[1].maxConcurrencyLevel = MaxLevel
  /\ Len(ramp[1].results) = MaxLevel

\* C5: a run whose first metrics-bearing record is a Terminal record (done
\* true, resource_delta on the record itself, no Metrics record before it)
\* succeeds with the RunResult built from that record, unless a timeout or a
\* transport error failed it before.
C5_EmbeddedMetrics ==
  \A r \in Ramps :
    LET decoded == run[r].st.decoded IN
    (/\ decoded # <<>>
     /\ IsTerminal(Last(decoded))
     /\ Last(decoded).resource_delta.present
     /\ MetricsOf(decoded) = <<>>
     /\ ~FailedOutside(r))
      => /\ run[r].settled = "resolved"
         /\ Last(ramp[r].results) =
              BuildResult(Last(decoded), run[r].level, run[r].st.rawTokens)

C8_TerminalWithoutMetrics ==
  \A r \in Ramps :
    LET decoded == run[r].st.decoded IN
    (/\ decoded # <<>>
     /\ IsTerminal(Last(decoded))
     /\ ~Last(decoded).resource_delta.present
     /\ MetricsOf(decoded) = <<>>)
      => /\ run[r].st.call = "reject"
         /\ run[r].st.error = ErrNoMetricsDone
         /\ run[r].settled = "rejected"
         /\ ramp[r].failure \in {ErrNoMetricsDone, ErrTimeout}
         /\ HaltedAt(r, run[r].level)

C8_Witness ==
  /\ run[1].st.decoded # <<>>
  /\ Last(run[1].st.decoded) = JSONValue("T}")
  /\ MetricsOf(run[1].st.decoded) = <<>>
  /\ ramp[1].failure = ErrNoMetricsDone
  /\ ramp[1].maxConcurrencyLevel = 2
  /\ HaltedAt(1, 1)

\* C9: whenever a run yields its RunResult, the result is the one built from
\* the last Metrics record decoded in that run; Metrics records before it have
\* no influence.
C9_LastMetricsWins ==
  [][\A r \in Ramps :
       Len(ramp'[r].results) = Len(ramp[r].results) + 1 =>
         LET ms == MetricsOf(run[r].st.decoded) IN
         /\ ms # <<>>
         /\ Last(ramp'[r].results) =
              BuildResult(Last(ms), run[r].level, run[r].st.rawTokens)]_vars

C9_Witness ==
  /\ ramp[1].pc = "completed"
  /\ run[1].st.decoded = <<JSONValue("M1}"), JSONValue("M2}"), JSONValue("T}")>>
  /\ Last(ramp[1].results) = BuildResult(JSONValue("M2}"), run[1].level, <<>>)
  /\ Last(ramp[1].results) # BuildResult(JSONValue("M1}"), run[1].level, <<>>)

\* C10: however the bytes read so far were cut into chunks, the run is in the
\* state that reading the same bytes as one single chunk gives: the same
\* records decoded, the same content, captured metrics and status messages,
\* the same call on the promise.
C10_ChunkInvariance ==
  \A r \in Ramps :
    run[r].phase \in {"reading", "closed"} =>
      LET one == ProcessChunk(FreshRun, net[r].received, run[r].level) IN
      run[r].st = IF net[r].ended THEN ProcessEnd(one, run[r].level) ELSE one

\* two records, each read in more than one piece or not, then the result
C10_Witness ==
  /\ net[1].cut
  /\ net[1].received = Ndjson("M1}") \o Ndjson("T}")
  /\ run[1].st.decoded = <<JSONValue("M1}"), JSONValue("T}")>>
  /\ run[1].st.call = "resolve"

\* the complete lines of a text, each with its newline again
RECURSIVE JoinLines(_)
JoinLines(lines) ==
  IF lines = <<>> THEN <<>>
  ELSE (Head(lines) \o <<NL>>) \o JoinLines(Tail(lines))

\* a line `data: [DONE]`, blanks after the prefix or at the end allowed
IsSentinelLine(line) ==
  /\ line # <<>>
  /\ Head(line) = PFX
  /\ Trim(Tail(line)) = <<SENTINEL>>

\* a line that is not blank, is not the sentinel and does not parse
IsMalformedLine(line) ==
  /\ ~IsBlank(line)
  /\ ~IsSentinelLine(line)
  /\ ~JSONParse(IF Head(line) = PFX THEN Tail(line) ELSE line).ok

WithoutSentinels(text) ==
  JoinLines(SelectSeq(CompleteLines(text), LAMBDA l : ~IsSentinelLine(l)))
    \o Incomplete(text)

WithoutMalformed(text) ==
  JoinLines(SelectSeq(CompleteLines(text), LAMBDA l : ~IsMalformedLine(l)))
    \o Incomplete(text)

\* the state of a run that has read text (and the end of the stream, if ended)
RunOver(text, ended, level) ==
  LET one == ProcessChunk(FreshRun, text, level) IN
  IF ended THEN ProcessEnd(one, level) ELSE one

\* C11: lines `data: [DONE]` leave no trace: the run is in the state it would
\* be in had the stream not held them: the same records decoded, the same
\* content and captured metrics, the same call (or none) on the promise; in
\* particular the sentinel is not taken as a Terminal record and the lines
\* after it are handled.
C11_SentinelIsNoOp ==
  \A r \in Ramps :
    run[r].phase \in {"reading", "closed"} =>
      run[r].st = RunOver(WithoutSentinels(net[r].received), net[r].ended,
                          run[r].level)

\* metrics, the sentinel, then the Terminal record that resolves the run
C11_Witness ==
  /\ net[1].received = (Ndjson("M1}") \o SseDone) \o Ndjson("T}")
  /\ run[1].st.decoded = <<JSONValue("M1}"), JSONValue("T}")>>
  /\ run[1].settled = "resolved"
  /\ ramp[1].results = <<BuildResult(JSONValue("M1}"), 1, <<>>)>>

\* C12: lines that fail JSON parsing leave no trace: the run is in the state
\* it would be in had the stream not held them, so the content, the captured
\* metrics, the outcome and the RunResult are those of the stream without the
\* malformed lines, and the lines after a malformed one are still handled.
C12_MalformedDiscarded ==
  \A r \in Ramps :
    run[r].phase \in {"reading", "closed"} =>
      run[r].st = RunOver(WithoutMalformed(net[r].received), net[r].ended,
                          run[r].level)

\* metrics, a truncated object, then the Terminal record that resolves the run
C12_Witness ==
  /\ net[1].received = (Ndjson("M1}") \o Malformed) \o Ndjson("T}")
  /\ run[1].st.decoded = <<JSONValue("M1}"), JSONValue("T}")>>
  /\ run[1].settled = "resolved"
  /\ ramp[1].results = <<BuildResult(JSONValue("M1}"), 1, <<>>)>>

\* the levels of invocation r whose request was issued and whose run has not
\* settled
InFlight(r) ==
  {ramp[r].issued[i] : i \in 1..Len(ramp[r].issued)} \
    {ramp[r].settledLevels[i] : i \in 1..Len(ramp[r].settledLevels)}

C14_ResultsAreLevels ==
  /\ \A r \in Ramps :
       /\ Concurrencies(ramp[r].results) = UpTo(Len(ramp[r].results))
       /\ Len(ramp[r].results) <= ramp[r].maxConcurrencyLevel
       /\ ramp[r].pc \in {"loop", "failed"} => Len(ramp[r].results) = ramp[r].n - 1
       /\ ramp[r].pc = "completed" =>
            Len(ramp[r].results) = ramp[r].maxConcurrencyLevel
  /\ testResults = ramp[1].results

\* level 1 has its result, level 2 failed on a transport error and has none
C14_Witness ==
  /\ ramp[1].pc = "failed"
  /\ ramp[1].failure = ErrTransport
  /\ ramp[1].n = 2
  /\ Concurrencies(ramp[1].results) = <<1>>
  /\ testResults = ramp[1].results

\* C15: when the timer of level k fires while the run of level k is pending,
\* the run fails with the timeout error: no result is added, the failure is
\* notified and the invocation halts at level k.  A timer that fires when its
\* run has settled (it succeeded or failed before, the invocation may be at a
\* later level) changes neither the invocation nor the result list nor the
\* current run nor the messages.
C15_Timeout ==
  [][\A r \in Ramps : \A k \in timers[r] \ timers'[r] :
       IF run[r].level = k /\ run[r].settled = "pending"
         THEN /\ run'[r].settled = "rejected"
              /\ ramp'[r].pc = "failed"
              /\ ramp'[r].failure = ErrTimeout
              /\ ramp'[r].n = k
              /\ ramp'[r].issued = ramp[r].issued
              /\ ramp'[r].results = ramp[r].results
              /\ Len(ramp'[r].results) = k - 1
              /\ ramp'[r].saves = <<ramp[r].results>>
              /\ testResults' = testResults
              /\ Last(statusMessages').kind = "failed"
              /\ Last(statusMessages').text = ErrTimeout
         ELSE /\ ramp'[r] = ramp[r]
              /\ run'[r] = run[r]
              /\ testResults' = testResults
              /\ statusMessages' = statusMessages
              /\ isRunning' = isRunning]_vars

\* the timer of level 1 fired after level 1 had succeeded, the timer of
\* level 2 fired while level 2 was pending
C15_Witness ==
  /\ HaltedAt(1, 2)
  /\ ramp[1].failure = ErrTimeout
  /\ Len(ramp[1].results) = 1
  /\ timers[1] = {}

FailureNotifications == SelectSeq(statusMessages, LAMBDA m : m.kind = "failed")

IsPrefix(p, q) == Len(p) <= Len(q) /\ SubSeq(q, 1, Len(p)) = p

\* C16: a run error that fails the invocation at level n of N is notified by
\* one message that names n, N and the error, there is no other failure
\* notification, later events (the timer, the stream still being read) add
\* none, and neither the failure nor any other step removes or alters a
\* result collected before: the result list only grows at its end.
C16_OneFailureNotification ==
  [][/\ \A r \in Ramps : IsPrefix(ramp[r].results, ramp'[r].results)
     /\ IsPrefix(testResults, testResults')
     /\ IF ramp'[1].pc = "failed"
          THEN /\ Len(FailureNotifications') = 1
               /\ FailureNotifications'[1].level = ramp'[1].n
               /\ FailureNotifications'[1].of = ramp'[1].maxConcurrencyLevel
               /\ FailureNotifications'[1].text = ramp'[1].failure
               /\ ramp'[1].failure # ""
               /\ testResults' = ramp'[1].results
               /\ Len(testResults') = ramp'[1].n - 1
          ELSE FailureNotifications' = <<>>]_vars

\* level 2 of 2 failed at the end of its stream, its timer fired later; the
\* result of level 1 is still there
C16_Witness ==
  /\ ramp[1].pc = "failed"
  /\ ramp[1].n = 2
  /\ ramp[1].failure = ErrNoMetricsEnd
  /\ timers[1] = {}
  /\ Len(FailureNotifications) = 1
  /\ Concurrencies(testResults) = <<1>>

\* the run of invocation r reads or has read a stream
Streams(r) == run[r].phase \in {"reading", "closed"}

\* the fragment a record carries: message.content, else content
FragmentOf(d) == IF d.messageContent # <<>> THEN d.messageContent ELSE d.content

\* f1 f2 ... fn: the fragments of the Content records of decoded, in order
RECURSIVE Fragments(_)
Fragments(decoded) ==
  IF decoded = <<>> THEN <<>>
  ELSE (IF IsPlain(Head(decoded)) THEN FragmentOf(Head(decoded)) ELSE <<>>)
         \o Fragments(Tail(decoded))

Kind(d, IsDone(_)) ==
  IF d.type = "metrics" /\ d.resource_delta.present THEN "Metrics"
  ELSE IF IsDone(d.done) THEN "Terminal"
  ELSE IF d.messageContent # <<>> \/ d.content # <<>> THEN "Content"
  ELSE "Other"

\* what the records of decoded do when each has the effect of its kind:
\* Metrics is captured (and announced, if the announcement can be built),
\* Content is appended to the buffer, Terminal makes the run call resolve or
\* reject (unless the result cannot be built from the captured metrics),
\* Other does nothing
RECURSIVE Effects(_, _, _)
Effects(decoded, IsDone(_), acc) ==
  IF decoded = <<>> THEN acc
  ELSE LET d == Head(decoded)
           kind == Kind(d, IsDone)
           acc2 ==
             CASE kind = "Metrics" ->
                    [acc EXCEPT !.realMetrics = [some |-> TRUE, data |-> d],
                                !.announced = IF d.resource_delta.hasGpu
                                                THEN @ + 1 ELSE @]
               [] kind = "Terminal" ->
                    [acc EXCEPT !.called =
                       @ \/ ~(acc.realMetrics.some /\
                               ~acc.realMetrics.data.resource_delta.hasGpu)]
               [] kind = "Content" ->
                    [acc EXCEPT !.rawTokens = @ \o FragmentOf(d)]
               [] kind = "Other" -> acc
       IN Effects(Tail(decoded), IsDone, acc2)

NoEffects ==
  [rawTokens |-> <<>>, realMetrics |-> NoMetrics, announced |-> 0,
   called |-> FALSE]

\* the run of r is what the kinds of its decoded records make it
ClassifiedBy(r, IsDone(_)) ==
  LET e == Effects(run[r].st.decoded, IsDone, NoEffects) IN
  /\ run[r].st.rawTokens = e.rawTokens
  /\ run[r].st.realMetrics = e.realMetrics
  /\ Len(run[r].st.msgs) = e.announced
  /\ (run[r].st.call # "none") = (e.called \/ net[r].ended)

DoneIsTrue(done) == done = "true"

DoneIsTruthy(done) == done \in {"true", "str"}

\* C18 as stated: every record has the effect of its kind, where rule 2 asks
\* for the boolean true: a record whose done is another value and that has
\* no content has no effect.
C18_BooleanDone == \A r \in Ramps : Streams(r) => ClassifiedBy(r, DoneIsTrue)

\* C18 as amended: every record has the effect of its kind by the four
\* rules, first match wins, where rule 2 asks for a truthy done (true or a
\* non-empty string): metrics with resource_delta is Metrics even with done,
\* a truthy done is Terminal even with content, message.content goes before
\* content, and any other record has no effect.
C18_TruthyDone == \A r \in Ramps : Streams(r) => ClassifiedBy(r, DoneIsTruthy)

\* a record with both content members, metrics with done, done with content
C18_Witness ==
  /\ run[1].st.decoded = <<JSONValue("B}"), JSONValue("MT}"), JSONValue("TC}")>>
  /\ run[1].st.rawTokens = <<SP, "!">>
  /\ run[1].settled = "resolved"
  /\ ramp[1].results = <<BuildResult(JSONValue("MT}"), 1, <<SP, "!">>)>>

\* C19: when the captured metrics have a resource_delta without gpu list or
\* without ram object and a Terminal record arrives, the run succeeds (unless
\* a timeout or transport error failed it before) and the deltas read from
\* the absent member are 0 in the RunResult.
C19_AbsentDeltaIsZero ==
  \A r \in Ramps :
    LET decoded == run[r].st.decoded
        ms == MetricsOf(decoded)
        delta == Last(ms).resource_delta
        res == Last(ramp[r].results)
    IN
    (/\ Streams(r)
     /\ decoded # <<>>
     /\ IsTerminal(Last(decoded))
     /\ ms # <<>>
     /\ ~delta.hasGpu \/ ~delta.hasRam
     /\ ~FailedOutside(r))
      => /\ run[r].settled = "resolved"
         /\ ~delta.hasGpu => res.gpuDelta = 0 /\ res.gpuMemoryDelta = 0
         /\ ~delta.hasRam => res.ramDelta = 0 /\ res.ramMemoryDelta = 0

\* the payload the result of a run that succeeded was built from
PayloadOf(r) ==
  IF run[r].phase = "replied" THEN run[r].st.decoded[1]
  ELSE Last(MetricsOf(run[r].st.decoded))

BlankCount(text) == Cardinality({i \in 1..Len(text) : text[i] = SP})

\* C20 as stated: a counter the payload lacks is 0 in the RunResult, total
\* tokens included, whatever content was streamed.
C20_AbsentCountersAreZero ==
  \A r \in Ramps :
    run[r].settled = "resolved" =>
      LET m == PayloadOf(r)
          res == Last(ramp[r].results)
      IN /\ m.tokens_per_second = 0 => res.throughput = 0
         /\ m.prompt_tokens_per_second = 0 => res.promptThroughput = 0
         /\ m.load_time_seconds = 0 => res.loadTime = 0
         /\ m.eval_time_seconds = 0 => res.evalTime = 0
         /\ m.total_tokens = 0 => res.totalTokens = 0

\* C20 as amended: tokens_per_second, prompt_tokens_per_second,
\* load_time_seconds and eval_time_seconds are copied, 0 when absent; total
\* tokens is copied when present; when absent it is, for a streamed run, the
\* number of pieces the streamed content splits into at blanks (one more than
\* its blanks, so 1 without content), and 0 for a run that did not stream.
C20_AbsentCounters ==
  \A r \in Ramps :
    run[r].settled = "resolved" =>
      LET m == PayloadOf(r)
          res == Last(ramp[r].results)
      IN /\ res.throughput = m.tokens_per_second
         /\ res.promptThroughput = m.prompt_tokens_per_second
         /\ res.loadTime = m.load_time_seconds
         /\ res.evalTime = m.eval_time_seconds
         /\ m.total_tokens # 0 => res.totalTokens = m.total_tokens
         /\ m.total_tokens = 0 =>
              res.totalTokens = IF run[r].phase = "replied" THEN 0
                                ELSE BlankCount(run[r].st.rawTokens) + 1

\* content " !" was streamed, the metrics have tokens_per_second only
C20_Witness ==
  /\ run[1].st.decoded = <<JSONValue("B}"), JSONValue("MR}"), JSONValue("T}")>>
  /\ run[1].settled = "resolved"
  /\ Last(ramp[1].results).totalTokens = 2
  /\ Last(ramp[1].results).throughput = 30
  /\ Last(ramp[1].results).loadTime = 0

\* text with F applied to each of its complete lines
MapLines(text, F(_)) ==
  LET lines == CompleteLines(text) IN
  JoinLines([i \in 1..Len(lines) |-> F(lines[i])]) \o Incomplete(text)

\* a line whose prefix has blanks before it
HasLeadingBlankPrefix(line) ==
  /\ line # <<>>
  /\ Head(line) = SP
  /\ TrimLeft(line) # <<>>
  /\ Head(TrimLeft(line)) = PFX

\* such a line dropped, any other line stripped of blanks at both ends (and
\* after the prefix)
NormLine(line) ==
  IF HasLeadingBlankPrefix(line) THEN <<>>
  ELSE IF line # <<>> /\ Head(line) = PFX THEN <<PFX>> \o Trim(Tail(line))
  ELSE Trim(line)

\* C21 as stated: every line is stripped of blanks at both ends before the
\* prefix test: the run is in the state the same stream with stripped lines
\* gives, so a prefixed record decodes the same with blanks before it.
C21_StrippedBeforePrefix ==
  \A r \in Ramps :
    Streams(r) =>
      run[r].st = RunOver(MapLines(net[r].received, Trim), net[r].ended,
                          run[r].level)

\* C21 as amended: blanks at the end of a line, after the prefix and around
\* a record without prefix do not matter: the run is in the state the same
\* stream with those blanks removed gives; a line with blanks before the
\* prefix is not decoded and has no effect, as if it were not there.
C21_BlanksAroundRecords ==
  \A r \in Ramps :
    Streams(r) =>
      run[r].st = RunOver(MapLines(net[r].received, NormLine), net[r].ended,
                          run[r].level)

\* a metrics event with a blank before the prefix is lost, the padded
\* Terminal record after it is decoded and fails the run for missing metrics
C21_Witness ==
  /\ net[1].received = LeadSse("M1}") \o SsePadded("T}")
  /\ run[1].st.decoded = <<JSONValue("T}")>>
  /\ ~run[1].st.realMetrics.some
  /\ ramp[1].failure = ErrNoMetricsDone


\* C22: the results of an invocation are handed to saveTestResults exactly
\* once, when its level loop has ended and isRunning is false; what is handed
\* over, and what the POST to /api/save-metrics carries, is the list the loop
\* accumulated, in level order, with one result per level when every level
\* succeeded.
C22_SavedOnceAfterLoop ==
  \A r \in Ramps :
    /\ Len(ramp[r].saves) <= 1
    /\ (ramp[r].saves # <<>>) <=> (ramp[r].pc \in {"completed", "failed"})
    /\ ramp[r].saves # <<>> =>
         /\ ~isRunning
         /\ ramp[r].saves[1] = ramp[r].results
         /\ \A i \in 1..Len(ramp[r].results) : ramp[r].results[i].concurrency = i
    /\ ramp[r].pc = "completed" =>
         Len(ramp[r].saves[1]) = ramp[r].maxConcurrencyLevel
    /\ (server.from = r /\ server.phase # "lost") =>
         /\ ramp[r].saves # <<>>
         /\ server.body.resultsKind = "array"
         /\ server.body.results = ramp[r].results
         /\ server.body.apiUrl = UiApiUrl
         /\ server.body.model = UiModel

C22_Witness ==
  /\ ramp[1].pc = "completed"
  /\ ramp[1].maxConcurrencyLevel = MaxLevel
  /\ server.from = 1
  /\ Len(server.body.results) = MaxLevel
  /\ server.replied
  /\ Last(statusMessages) = SavedMsg

\* the columns of a row that hold peak usage
PeakColumns ==
  {"peakGpuUtilization", "peakGpuVramUsage", "peakGpuVramMb",
   "peakCpuRamUsage", "peakCpuRamUsageMb"}

\* the members of a result that are stored as they are
PlainColumns ==
  {"concurrency", "message", "latency", "throughput", "promptThroughput",
   "totalTokens", "loadTime", "evalTime", "gpuDelta", "ramDelta",
   "gpuMemoryDelta", "ramMemoryDelta"}

\* C29: every row save-metrics writes for a result of the dashboard has its
\* five peak columns null, whatever the result's peak fields hold, and
\* get-metrics returns them null; the other members of the result are stored
\* and returned as posted.
C29_PeaksNotStored ==
  \A w \in server.rows :
    LET result == server.body.results[w.i]
        got == GetResult(w.row)
    IN /\ \A c \in PeakColumns : w.row[c].null /\ got[c].null
       /\ \A c \in PlainColumns : w.row[c] = result[c] /\ got[c] = result[c]
       /\ got.apiUrl = server.body.apiUrl
       /\ got.model = server.body.model

C29_Witness ==
  \E w \in server.rows :
    /\ server.from = 1
    /\ \A c \in PeakColumns : server.body.results[w.i][c] > 0
    /\ server.body.results[w.i].peakGpuUtilization = 80
    /\ GetResult(w.row).peakGpuUtilization.null

\* the rows of the creates of the request that succeeded
RowsOfOk ==
  {[i |-> i, row |-> Row(server.body, server.body.results[i])] :
     i \in {j \in 1..Len(server.creates) : server.creates[j] = "ok"}}

\* C30: a request answered 400 has written no row and issued no create; for
\* a valid request each create succeeds or fails on its own: the rows of the
\* creates that succeeded are in the table whether or not another create of
\* the request failed, a create can still succeed after the response, the
\* status is 500 once a create failed and 200 only when all succeeded.
C30_NotAllOrNothing ==
  /\ server.rows = RowsOfOk
  /\ (server.status = 400) <=>
       (server.phase = "answered" /\ server.body.json /\ ~SaveValid(server.body))
  /\ server.status = 400 => server.rows = {} /\ server.creates = <<>>
  /\ (server.status = 500) <=>
       (server.phase = "answered" /\
          (~server.body.json \/
             \E i \in 1..Len(server.creates) : server.creates[i] = "failed"))
  /\ (server.status = 200) <=>
       (server.phase = "answered" /\ server.body.json /\ SaveValid(server.body) /\
          \A i \in 1..Len(server.creates) : server.creates[i] = "ok")
  /\ server.phase = "creating" =>
       /\ server.status = 0
       /\ Len(server.creates) = Len(server.body.results)

C30_Witness ==
  /\ server.status = 500
  /\ Len(server.body.results) = 2
  /\ server.creates = <<"failed", "ok">>
  /\ Cardinality(server.rows) = 1

\* C23: an invocation of startTest that entered its level loop eventually
\* ends it, completed or failed, with isRunning false, whatever the peer
\* does, given that every armed timer fires.
C23_LeavesRunning ==
  \A r \in {1} :
    (ramp[r].pc = "loop") ~>
      (ramp[r].pc \in {"completed", "failed"} /\ ~isRunning)

C23_Witness ==
  /\ ramp[1].pc = "failed"
  /\ ramp[1].failure = ErrTimeout
  /\ ramp[1].n = MaxLevel
  /\ run[1].phase = "reading"
  /\ ~net[1].ended
  /\ ~isRunning

IsSuffix(p, q) ==
  Len(p) <= Len(q) /\ SubSeq(q, Len(q) - Len(p) + 1, Len(q)) = p

\* the records of the format of README.md 62-76: status and content records
\* without done, then one metrics record, without done, whose resource_delta
\* has the gpu list and the ram object of README.md 146-160
ReadmeRecords(decoded) ==
  /\ decoded # <<>>
  /\ \A i \in 1..(Len(decoded) - 1) :
       decoded[i].type \in {"status", "content"} /\ ~Truthy(decoded[i].done)
  /\ LET m == Last(decoded) IN
       /\ m.type = "metrics"
       /\ ~Truthy(m.done)
       /\ m.resource_delta.present
       /\ m.resource_delta.hasGpu
       /\ m.resource_delta.hasRam

\* C24: a stream of status and content records, one metrics record with
\* resource_delta and the line `data: [DONE]`, with no done record, leaves the
\* run pending while it is open and resolves it when it ends (unless a
\* timeout or transport error failed it before); the RunResult is built from
\* the metrics record.
C24_ReadmeStreamSucceeds ==
  \A r \in Ramps :
    (/\ Streams(r)
     /\ ReadmeRecords(run[r].st.decoded)
     /\ IsSuffix(SseDone, net[r].received)
     /\ ~FailedOutside(r))
      => IF net[r].ended
           THEN /\ run[r].settled = "resolved"
                /\ run[r].st.call = "resolve"
                /\ ramp[r].results =
                     <<BuildResult(Last(run[r].st.decoded), run[r].level,
                                   Fragments(run[r].st.decoded))>>
                /\ Last(ramp[r].results).throughput =
                     Last(run[r].st.decoded).tokens_per_second
                /\ Last(ramp[r].results).gpuDelta =
                     Last(run[r].st.decoded).resource_delta.gpu[1].utilization_delta_percent
           ELSE run[r].settled = "pending"

C24_Witness ==
  /\ net[1].received = EventsHead \o ReadmeTail
  /\ net[1].ended
  /\ run[1].settled = "resolved"
  /\ ramp[1].pc = "completed"
  /\ ramp[1].results = <<BuildResult(JSONValue("M1}"), 1, <<"Hel">>)>>
  /\ Last(ramp[1].results).throughput = 45

\* C25: a run settles once.  The first event that calls resolve or reject
\* fixes the outcome: a resolve adds the one RunResult of the level, a reject
\* adds none and records the failure.  No later event of the run changes how
\* it settled, the result list, the failure, how the invocation ended or
\* what was handed to saveTestResults.
C25_SettlesOnce ==
  [][\A r \in Ramps :
       IF run[r].settled # "pending"
         THEN /\ run'[r].settled = run[r].settled
              /\ run'[r].level = run[r].level
              /\ ramp'[r] = ramp[r]
              /\ testResults' = testResults
              /\ maxConcurrency' = maxConcurrency
              /\ isRunning' = isRunning
       ELSE /\ run'[r].settled = "resolved" =>
                 /\ run'[r].st.call = "resolve"
                 /\ ramp'[r].results = Append(ramp[r].results, run'[r].st.result)
                 /\ Concurrencies(ramp'[r].results) = UpTo(run[r].level)
                 /\ ramp'[r].failure = ""
                 /\ ramp'[r].pc = "completed"
            /\ run'[r].settled = "rejected" =>
                 /\ ramp'[r].results = ramp[r].results
                 /\ ramp'[r].failure # ""
                 /\ ramp'[r].pc = "failed"]_vars

\* the timer failed the run, then the stream brought metrics and the
\* Terminal record: the callback called resolve, the run stays failed
C25_Witness ==
  /\ run[1].settled = "rejected"
  /\ ramp[1].failure = ErrTimeout
  /\ run[1].st.call = "resolve"
  /\ run[1].st.realMetrics.some
  /\ ramp[1].results = <<>>
  /\ testResults = <<>>
  /\ ramp[1].saves = <<<<>>>>

\* C26: when the stream has ended, the run is what the lines that ended
\* with a newline make it: the records decoded, the content, the captured
\* metrics and the messages are theirs, the outcome is the one the end
\* gives to them, and what came after the last newline is still in the
\* buffer, undecoded.
C26_ResidualDropped ==
  \A r \in Ramps :
    (Streams(r) /\ net[r].ended) =>
      LET text == net[r].received
          b == ProcessChunk(FreshRun, JoinLines(CompleteLines(text)), run[r].level)
          st == run[r].st
      IN /\ st.buffer = Incomplete(text)
         /\ st.decoded = b.decoded
         /\ st.rawTokens = b.rawTokens
         /\ st.realMetrics = b.realMetrics
         /\ st.msgs = b.msgs
         /\ st.call = IF b.realMetrics.some /\ ~BuildThrows(b.realMetrics.data)
                        THEN "resolve" ELSE "reject"
         /\ st.call = "resolve" =>
              st.result = BuildResult(b.realMetrics.data, run[r].level, b.rawTokens)
         /\ ~b.realMetrics.some => st.error = ErrNoMetricsEnd

\* content, then a done record with metrics of its own and no newline
C26_Witness ==
  /\ net[1].ended
  /\ net[1].received = Sse("Cb}") \o Unterminated("TE}")
  /\ run[1].st.buffer = <<OPEN, "TE}">>
  /\ run[1].st.decoded = <<JSONValue("Cb}")>>
  /\ run[1].settled = "rejected"
  /\ ramp[1].failure = ErrNoMetricsEnd
  /\ ramp[1].results = <<>>

\* the records the load-test route writes (page.tsx 1384-1481): status,
\* content, the metrics event with its payload under `metrics`, and the
\* event of type DONE; none has done or resource_delta at the top level
LoadTestRecords(decoded) ==
  \A i \in 1..Len(decoded) :
    /\ decoded[i].type \in {"status", "content", "metrics", "DONE"}
    /\ ~Truthy(decoded[i].done)
    /\ ~decoded[i].resource_delta.present
    /\ decoded[i].type = "metrics" => decoded[i].metrics.present

C28_TimedOutStreamStillRead ==
  [][\A r \in Ramps :
       /\ (run[r].settled = "pending" /\ run'[r].settled = "rejected"
             /\ ramp'[r].failure = ErrTimeout) =>
            /\ run'[r].phase = run[r].phase
            /\ run'[r].st = run[r].st
            /\ net'[r] = net[r]
       /\ (run[r].settled = "rejected" /\ ramp[r].failure = ErrTimeout) =>
            /\ ramp'[r] = ramp[r]
            /\ testResults' = testResults
            /\ ~isRunning /\ ~isRunning'
            /\ server' = server
            /\ currentContent' =
                 IF run'[r].st.rawTokens # run[r].st.rawTokens
                   THEN run'[r].st.rawTokens ELSE currentContent
            /\ statusMessages' =
                 statusMessages \o
                   SubSeq(run'[r].st.msgs, Len(run[r].st.msgs) + 1,
                          Len(run'[r].st.msgs))]_vars

\* after the failure by timeout: content shown, and the status message of a
\* metrics record after the failure notification
C28_Witness ==
  /\ ramp[1].pc = "failed"
  /\ ramp[1].failure = ErrTimeout
  /\ ~isRunning
  /\ ramp[1].results = <<>>
  /\ ramp[1].saves = <<<<>>>>
  /\ Len(statusMessages) = 2
  /\ statusMessages[1].kind = "failed"
  /\ statusMessages[2].kind = "metrics"
  /\ currentContent # <<>>
  /\ currentContent = run[1].st.rawTokens

====
